---- MODULE Spec2Model ----
(***************************************************************************)
(* Polygon dictionaries: createLayout, the linear locator                  *)
(* (SimplePolygonDictionary::find) and the grid locator                    *)
(* (GridPolygonDictionary constructor and find) of                         *)
(* dbms/src/Dictionaries/PolygonDictionaryImplementations.cpp.             *)
(*                                                                         *)
(* Slot indices are 0-based as in the source.  Coordinates are integers in *)
(* units fine enough that every quadrant down to the deepest level has     *)
(* integer corners.  Areas are kept as twice the geometric area so that    *)
(* triangles stay integral; the code only ever compares areas.             *)
(***************************************************************************)
EXTENDS Integers, Sequences, FiniteSets, TLC

\* ------------------------------------------------------------------ bounds
MaxPolygons == 2
MaxMinIntersections == 1
MaxDepthBound == 2

RECURSIVE Pow2(_)
Pow2(n) == IF n = 0 THEN 1 ELSE 2 * Pow2(n - 1)

\* Lattice pitch of polygon vertices.
G == Pow2(MaxDepthBound)

VARIABLES
    dict_struct,        \* DictionaryStructure handed to createLayout
    layout,             \* "polygon" | "grid_polygon" (registerDictionaryPolygon)
    source,             \* rows the dictionary source delivers, in order
    kMinIntersections,  \* grid build parameter
    kMaxDepth,          \* grid build parameter
    status,             \* "none" | "rejected" | "built"
    error,              \* error code of the thrown Exception, or "none"
    input_type,         \* IPolygonDictionary::InputType of the built dictionary
    point_type,         \* IPolygonDictionary::PointType of the built dictionary
    polygons,           \* IPolygonDictionary::polygons, slot -> polygon
    areas,              \* IPolygonDictionary::areas, slot -> area
    order,              \* the order handed to grid.init
    grid,               \* GridRoot: [box, cells]
    th                  \* per calling thread: the locals of its find call

vars == <<dict_struct, layout, source, kMinIntersections, kMaxDepth, status, error,
          input_type, point_type, polygons, areas, order, grid, th>>

dictVars == <<status, error, input_type, point_type, polygons, areas, order, grid>>
inputVars == <<dict_struct, layout, source, kMinIntersections, kMaxDepth>>

\* ------------------------------------------------------------ data types
\* A DataType is written as the preorder list of its constructors.
Float64Type == <<"Float64">>
ArrayOf(t) == <<"Array">> \o t
Tuple2Of(a, b) == <<"Tuple2">> \o a \o b

multi_polygon_array == ArrayOf(ArrayOf(ArrayOf(ArrayOf(Float64Type))))
multi_polygon_tuple == ArrayOf(ArrayOf(ArrayOf(Tuple2Of(Float64Type, Float64Type))))
simple_polygon_array == ArrayOf(ArrayOf(Float64Type))
simple_polygon_tuple == ArrayOf(Tuple2Of(Float64Type, Float64Type))

\* IDataType::equals: structural equality of the two types.
TypeEquals(a, b) ==
    /\ Len(a) = Len(b)
    /\ \A k \in 1..Len(a) : a[k] = b[k]

KeyTypes ==
    { multi_polygon_array, multi_polygon_tuple, simple_polygon_array,
      simple_polygon_tuple, ArrayOf(Float64Type), <<"UInt64">>,
      ArrayOf(ArrayOf(ArrayOf(Float64Type))) }

\* key_present is std::optional's has_value(); key lists the types of the key
\* attributes (empty, one, or two attributes).
KeyLists ==
    { << >> } \cup { <<t>> : t \in KeyTypes }
              \cup { <<simple_polygon_array, simple_polygon_array>> }

DictStructs ==
    { [key_present |-> TRUE, key |-> k, range_min |-> rmin, range_max |-> rmax] :
        k \in KeyLists, rmin \in BOOLEAN, rmax \in BOOLEAN }
    \cup
    { [key_present |-> FALSE, key |-> << >>, range_min |-> rmin, range_max |-> rmax] :
        rmin \in BOOLEAN, rmax \in BOOLEAN }

ValidDictStruct ==
    [key_present |-> TRUE, key |-> <<simple_polygon_array>>,
     range_min |-> FALSE, range_max |-> FALSE]

\* --------------------------------------------------------------- geometry
\* A polygon of the catalogue: an axis-parallel rectangle, a right triangle
\* with its right angle at (x1, y1), or a degenerate ring (a segment).
Rect(x1, y1, x2, y2) == [kind |-> "rect", x1 |-> x1, y1 |-> y1, x2 |-> x2, y2 |-> y2]
Tri(x1, y1, x2, y2) == [kind |-> "tri", x1 |-> x1, y1 |-> y1, x2 |-> x2, y2 |-> y2]
Degenerate(x1, y1, x2, y2) ==
    [kind |-> "degenerate", x1 |-> x1, y1 |-> y1, x2 |-> x2, y2 |-> y2]

Shapes ==
    { Rect(0, 0, 2 * G, G),          \* the lower half of the lattice
      Rect(0, 0, G, G),              \* a small square nested in it
      Rect(G, G, 2 * G, 2 * G),      \* same area, meets the former in (G, G)
      Tri(0, 0, 2 * G, 2 * G),       \* same area as the half, overlapping it
      Degenerate(0, 2 * G, G, 2 * G) }

\* Query coordinates: on the lattice, and strictly between lattice lines.
PointCoords == { 0, G \div 4, G, G + (G \div 4), 2 * G }
Points == { [x |-> x, y |-> y] : x \in PointCoords, y \in PointCoords }

\* bg::covered_by(point, polygon): inside or on the boundary.
covered_by(pt, poly) ==
    LET inBox == /\ poly.x1 <= pt.x /\ pt.x <= poly.x2
                 /\ poly.y1 <= pt.y /\ pt.y <= poly.y2
    IN  CASE poly.kind = "rect" -> inBox
          [] poly.kind = "tri" ->
                /\ inBox
                /\ (pt.x - poly.x1) * (poly.y2 - poly.y1)
                     + (pt.y - poly.y1) * (poly.x2 - poly.x1)
                   <= (poly.x2 - poly.x1) * (poly.y2 - poly.y1)
          [] OTHER -> FALSE

\* Twice the absolute area of the polygon.
Area(poly) ==
    CASE poly.kind = "rect" -> 2 * (poly.x2 - poly.x1) * (poly.y2 - poly.y1)
      [] poly.kind = "tri" -> (poly.x2 - poly.x1) * (poly.y2 - poly.y1)
      [] OTHER -> 0

BBox(poly) == [x1 |-> poly.x1, y1 |-> poly.y1, x2 |-> poly.x2, y2 |-> poly.y2]

NumPolygons == Cardinality(DOMAIN polygons)
Slots == DOMAIN polygons

SetMin(S) == CHOOSE m \in S : \A e \in S : m <= e
SetMax(S) == CHOOSE m \in S : \A e \in S : e <= m

\* The box no point lies in (min above max), as for an empty polygon set.
EmptyBox == [x1 |-> 1, y1 |-> 1, x2 |-> 0, y2 |-> 0]

\* Bounding rectangle of the union of all polygons' bounding boxes.
UnionBox(polys) ==
    IF DOMAIN polys = {} THEN EmptyBox
    ELSE [x1 |-> SetMin({ polys[i].x1 : i \in DOMAIN polys }),
          y1 |-> SetMin({ polys[i].y1 : i \in DOMAIN polys }),
          x2 |-> SetMax({ polys[i].x2 : i \in DOMAIN polys }),
          y2 |-> SetMax({ polys[i].y2 : i \in DOMAIN polys })]

InBox(box, x, y) ==
    /\ box.x1 <= x /\ x <= box.x2
    /\ box.y1 <= y /\ y <= box.y2

Intersects(a, b) ==
    /\ a.x1 <= b.x2 /\ b.x1 <= a.x2
    /\ a.y1 <= b.y2 /\ b.y1 <= a.y2

\* ----------------------------------------------------------- createLayout
\* The checks of createLayout, in the order of the code: the error thrown,
\* or "none" and the (input type, point type) pair of the matched shape.
Rejected(code) == [error |-> code, input_type |-> "none", point_type |-> "none"]
Accepted(it, pt) == [error |-> "none", input_type |-> it, point_type |-> pt]

\* Faulty variant: the range check requires both range_min and range_max.
LayoutTypes_RangeBoth(ds) ==
    IF ~ds.key_present THEN Rejected("BAD_ARGUMENTS")
    ELSE IF Len(ds.key) # 1 THEN Rejected("BAD_ARGUMENTS")
    ELSE LET key_type == ds.key[1]
             matched ==
                 IF TypeEquals(key_type, multi_polygon_array)
                     THEN Accepted("MultiPolygon", "Array")
                 ELSE IF TypeEquals(key_type, multi_polygon_tuple)
                     THEN Accepted("MultiPolygon", "Tuple")
                 ELSE IF TypeEquals(key_type, simple_polygon_array)
                     THEN Accepted("SimplePolygon", "Array")
                 ELSE IF TypeEquals(key_type, simple_polygon_tuple)
                     THEN Accepted("SimplePolygon", "Tuple")
                 ELSE Rejected("BAD_ARGUMENTS")
         IN  IF matched.error # "none" THEN matched
             ELSE IF ds.range_min /\ ds.range_max THEN Rejected("BAD_ARGUMENTS")
             ELSE matched

LayoutTypes(ds) ==
    IF ~ds.key_present THEN Rejected("BAD_ARGUMENTS")
    ELSE IF Len(ds.key) # 1 THEN Rejected("BAD_ARGUMENTS")
    ELSE LET key_type == ds.key[1]
             matched ==
                 IF TypeEquals(key_type, multi_polygon_array)
                     THEN Accepted("MultiPolygon", "Array")
                 ELSE IF TypeEquals(key_type, multi_polygon_tuple)
                     THEN Accepted("MultiPolygon", "Tuple")
                 ELSE IF TypeEquals(key_type, simple_polygon_array)
                     THEN Accepted("SimplePolygon", "Array")
                 ELSE IF TypeEquals(key_type, simple_polygon_tuple)
                     THEN Accepted("SimplePolygon", "Tuple")
                 ELSE Rejected("BAD_ARGUMENTS")
         IN  IF matched.error # "none" THEN matched
             ELSE IF ds.range_min \/ ds.range_max THEN Rejected("BAD_ARGUMENTS")
             ELSE matched

\* ------------------------------------------------- IPolygonDictionary load
\* The base class fills polygons and areas from the source, one slot per row.
LoadPolygons(rows) == [i \in 0..(Len(rows) - 1) |-> rows[i + 1]]
LoadAreas(rows) == [i \in 0..(Len(rows) - 1) |-> Area(rows[i + 1])]

\* ------------------------------------------ GridPolygonDictionary ordering
\* Faulty variant: the comparator orders by descending area.
OrderLess_Greater(ar, lhs, rhs) == ar[lhs] > ar[rhs]

\* The comparator handed to std::sort.
OrderLess(ar, lhs, rhs) == ar[lhs] < ar[rhs]

\* std::iota followed by std::sort: a permutation of 0..n-1 in which no
\* element compares less than its predecessor.  std::sort is not stable, so
\* slots that compare equivalent may come out in either order.
SortedOrders(ar) ==
    LET n == Cardinality(DOMAIN ar)
    IN  { o \in [1..n -> DOMAIN ar] :
            /\ \A a, b \in 1..n : a # b => o[a] # o[b]
            /\ \A k \in 1..(n - 1) : ~OrderLess(ar, o[k + 1], o[k]) }

\* ---------------------------------------------------------------- GridRoot
\* A cell is addressed by its path from the root (quadrant numbers 0..3).
NullCell == <<-1>>
RootPath == << >>

Boxes == [x1 : Int, y1 : Int, x2 : Int, y2 : Int]

\* Quadrant q of a rectangle: bit 0 of q selects the upper half in x, bit 1
\* the upper half in y.
QuadrantBox[box \in Boxes, q \in 0..3] ==
    LET mx == (box.x1 + box.x2) \div 2
        my == (box.y1 + box.y2) \div 2
    IN  [x1 |-> IF q % 2 = 0 THEN box.x1 ELSE mx,
         x2 |-> IF q % 2 = 0 THEN mx ELSE box.x2,
         y1 |-> IF q \div 2 = 0 THEN box.y1 ELSE my,
         y2 |-> IF q \div 2 = 0 THEN my ELSE box.y2]

\* The quadrant of box whose rectangle contains (x, y).
QuadrantOf(box, x, y) ==
    LET mx == (box.x1 + box.x2) \div 2
        my == (box.y1 + box.y2) \div 2
    IN  (IF x < mx THEN 0 ELSE 1) + 2 * (IF y < my THEN 0 ELSE 1)

\* The slots of ids, in the order of ids, whose bounding box intersects box.
Candidates(polys, box, ids) ==
    SelectSeq(ids, LAMBDA id : Intersects(box, BBox(polys[id])))

\* A cell splits when more than min_intersections bounding boxes intersect it
\* and its depth is below max_depth.
ShouldSplit(n_candidates, depth, min_intersections, max_depth) ==
    n_candidates > min_intersections /\ depth < max_depth

\* The cells of the subtree rooted at path, as a function from path to cell.
\* A cell's candidates are the slots of the order whose bounding box
\* intersects its rectangle, in the order's sequence.
RECURSIVE MakeCells(_, _, _, _, _, _)
MakeCells(polys, path, box, ord, min_intersections, max_depth) ==
    LET cand == Candidates(polys, box, ord)
        depth == Len(path)
        child(q) == MakeCells(polys, Append(path, q), QuadrantBox[box, q], ord,
                              min_intersections, max_depth)
    IN  IF ShouldSplit(Len(cand), depth, min_intersections, max_depth)
        THEN (path :> [path |-> path, box |-> box, leaf |-> FALSE, polygon_ids |-> << >>])
             @@ child(0) @@ child(1) @@ child(2) @@ child(3)
        ELSE (path :> [path |-> path, box |-> box, leaf |-> TRUE, polygon_ids |-> cand])

\* grid(min_intersections, max_depth, polygons) followed by grid.init(order).
GridInit(min_intersections, max_depth, polys, ord) ==
    [box |-> UnionBox(polys),
     cells |-> MakeCells(polys, RootPath, UnionBox(polys), ord,
                         min_intersections, max_depth)]

NoGrid == [box |-> EmptyBox, cells |-> [p \in {} |-> 0]]

RECURSIVE Descend(_, _, _, _)
Descend(g, path, x, y) ==
    IF g.cells[path].leaf THEN path
    ELSE Descend(g, Append(path, QuadrantOf(g.cells[path].box, x, y)), x, y)

\* grid.find(x, y): the leaf holding the point, or no cell for a point outside
\* the root rectangle.
GridRootFind(g, x, y) ==
    IF ~InBox(g.box, x, y) THEN NullCell ELSE Descend(g, RootPath, x, y)

\* Faulty variant: the two grid parameters are passed in the wrong order.
GridPolygonDictionaryGrid_SwappedParams(polys, ord) ==
    GridInit(kMaxDepth, kMinIntersections, polys, ord)

\* The GridPolygonDictionary constructor's use of the grid: the members built
\* from kMinIntersections, kMaxDepth, polygons and the sorted order.
GridPolygonDictionaryGrid(polys, ord) ==
    GridInit(kMinIntersections, kMaxDepth, polys, ord)

\* -------------------------------------------------------------------- find
\* The locals of one find call: the arguments (point, id by reference), the
\* loop position i, and id0, the value the caller's id held before the call.
IdleCall ==
    [pc |-> "idle", point |-> [x |-> 0, y |-> 0], id |-> 0, id0 |-> 0,
     found |-> FALSE, area |-> 0, i |-> 0, cell |-> NullCell]

\* The value the caller's id holds before the call: no slot number.
CallerIds == { MaxPolygons + 7 }

\* Faulty variant: found starts out true.
SimpleFindBegin_FoundTrue(q, id0) ==
    [pc |-> "scan", point |-> q, id |-> id0, id0 |-> id0,
     found |-> TRUE, area |-> 0, i |-> 0, cell |-> NullCell]

\* SimplePolygonDictionary::find up to the loop: found = false, area = 0.
SimpleFindBegin(q, id0) ==
    [pc |-> "scan", point |-> q, id |-> id0, id0 |-> id0,
     found |-> FALSE, area |-> 0, i |-> 0, cell |-> NullCell]

\* Faulty variant: the area comparison is reversed.
SimpleFindIteration_FlippedCompare(l) ==
    IF l.i < NumPolygons
    THEN IF covered_by(l.point, polygons[l.i])
         THEN LET new_area == areas[l.i]
              IN  IF ~l.found \/ new_area > l.area
                  THEN [l EXCEPT !.found = TRUE, !.id = l.i, !.area = new_area,
                                 !.i = l.i + 1]
                  ELSE [l EXCEPT !.i = l.i + 1]
         ELSE [l EXCEPT !.i = l.i + 1]
    ELSE [l EXCEPT !.pc = "done"]

\* One evaluation of the loop of SimplePolygonDictionary::find: the loop
\* test, and the body for slot i.
SimpleFindIteration(l) ==
    IF l.i < NumPolygons
    THEN IF covered_by(l.point, polygons[l.i])
         THEN LET new_area == areas[l.i]
              IN  IF ~l.found \/ new_area < l.area
                  THEN [l EXCEPT !.found = TRUE, !.id = l.i, !.area = new_area,
                                 !.i = l.i + 1]
                  ELSE [l EXCEPT !.i = l.i + 1]
         ELSE [l EXCEPT !.i = l.i + 1]
    ELSE [l EXCEPT !.pc = "done"]

\* Faulty variant: found starts out true.
GridFindBegin_FoundTrue(q, id0) ==
    [pc |-> "scan", point |-> q, id |-> id0, id0 |-> id0,
     found |-> TRUE, area |-> 0, i |-> 0, cell |-> GridRootFind(grid, q.x, q.y)]

\* GridPolygonDictionary::find up to the loop: found = false and the cell
\* lookup.
GridFindBegin(q, id0) ==
    [pc |-> "scan", point |-> q, id |-> id0, id0 |-> id0,
     found |-> FALSE, area |-> 0, i |-> 0, cell |-> GridRootFind(grid, q.x, q.y)]

\* Faulty variant: the first candidate is reported without the containment
\* test.
GridFindIteration_NoCoverTest(l) ==
    IF l.cell # NullCell /\ l.i < Len(grid.cells[l.cell].polygon_ids)
    THEN LET candidate == grid.cells[l.cell].polygon_ids[l.i + 1]
         IN  [l EXCEPT !.found = TRUE, !.id = candidate, !.pc = "done"]
    ELSE [l EXCEPT !.pc = "done"]

\* One evaluation of the loop of GridPolygonDictionary::find over
\* cell->polygon_ids: the first covering candidate ends the scan.
GridFindIteration(l) ==
    IF l.cell # NullCell /\ l.i < Len(grid.cells[l.cell].polygon_ids)
    THEN LET candidate == grid.cells[l.cell].polygon_ids[l.i + 1]
         IN  IF covered_by(l.point, polygons[candidate])
             THEN [l EXCEPT !.found = TRUE, !.id = candidate, !.pc = "done"]
             ELSE [l EXCEPT !.i = l.i + 1]
    ELSE [l EXCEPT !.pc = "done"]

\* A whole call run without interruption.
RECURSIVE SimpleRun(_)
SimpleRun(l) == IF l.pc = "done" THEN l ELSE SimpleRun(SimpleFindIteration(l))

RECURSIVE GridRun(_)
GridRun(l) == IF l.pc = "done" THEN l ELSE GridRun(GridFindIteration(l))

SimpleFind(q, id0) == SimpleRun(SimpleFindBegin(q, id0))
GridFind(q, id0) == GridRun(GridFindBegin(q, id0))

Result(l) == <<l.found, l.id>>

\* ----------------------------------------------------------------- actions
Threads == DOMAIN th

CreateLayout ==
    /\ status = "none"
    /\ LET r == LayoutTypes(dict_struct)
       IN  IF r.error # "none"
           THEN /\ status' = "rejected"
                /\ error' = r.error
                /\ UNCHANGED <<input_type, point_type, polygons, areas, order, grid>>
           ELSE /\ status' = "built"
                /\ error' = "none"
                /\ input_type' = r.input_type
                /\ point_type' = r.point_type
                /\ polygons' = LoadPolygons(source)
                /\ areas' = LoadAreas(source)
                /\ IF layout = "grid_polygon"
                   THEN \E o \in SortedOrders(LoadAreas(source)) :
                            /\ order' = o
                            /\ grid' = GridPolygonDictionaryGrid(LoadPolygons(source), o)
                   ELSE /\ order' = << >>
                        /\ grid' = NoGrid
    /\ UNCHANGED <<inputVars, th>>

SimpleFindCall(t, q, id0) ==
    /\ status = "built" /\ layout = "polygon"
    /\ th[t].pc = "idle"
    /\ th' = [th EXCEPT ![t] = SimpleFindBegin(q, id0)]
    /\ UNCHANGED <<inputVars, dictVars>>

SimpleFindStep(t) ==
    /\ status = "built" /\ layout = "polygon"
    /\ th[t].pc = "scan"
    /\ th' = [th EXCEPT ![t] = SimpleFindIteration(th[t])]
    /\ UNCHANGED <<inputVars, dictVars>>

GridFindCall(t, q, id0) ==
    /\ status = "built" /\ layout = "grid_polygon"
    /\ th[t].pc = "idle"
    /\ th' = [th EXCEPT ![t] = GridFindBegin(q, id0)]
    /\ UNCHANGED <<inputVars, dictVars>>

\* Faulty variant: a hit moves the reported candidate to the front of its
\* cell's list, so that the next lookup in the cell meets it first.
MoveToFront(ids, k) ==
    <<ids[k]>> \o SubSeq(ids, 1, k - 1) \o SubSeq(ids, k + 1, Len(ids))

GridFindStep_MoveToFront(t) ==
    /\ status = "built" /\ layout = "grid_polygon"
    /\ th[t].pc = "scan"
    /\ th' = [th EXCEPT ![t] = GridFindIteration(th[t])]
    /\ grid' = IF th'[t].found
               THEN [grid EXCEPT !.cells[th[t].cell].polygon_ids =
                                     MoveToFront(@, th[t].i + 1)]
               ELSE grid
    /\ UNCHANGED <<inputVars, status, error, input_type, point_type, polygons, areas, order>>

GridFindStep(t) ==
    /\ status = "built" /\ layout = "grid_polygon"
    /\ th[t].pc = "scan"
    /\ th' = [th EXCEPT ![t] = GridFindIteration(th[t])]
    /\ UNCHANGED <<inputVars, dictVars>>

\* The call has returned and its locals are gone; the thread may call again.
FindReturn(t) ==
    /\ th[t].pc = "done"
    /\ th' = [th EXCEPT ![t] = IdleCall]
    /\ UNCHANGED <<inputVars, dictVars>>

NextOver(points, ids) ==
    \/ CreateLayout
    \/ \E t \in Threads, q \in points, id0 \in ids : SimpleFindCall(t, q, id0)
    \/ \E t \in Threads : SimpleFindStep(t)
    \/ \E t \in Threads, q \in points, id0 \in ids : GridFindCall(t, q, id0)
    \/ \E t \in Threads : GridFindStep(t)
    \/ \E t \in Threads : FindReturn(t)

Next == NextOver(Points, CallerIds)

\* ------------------------------------------------------------------- inits
RECURSIVE SeqsUpTo(_, _)
SeqsUpTo(S, n) ==
    IF n = 0 THEN { << >> }
    ELSE LET shorter == SeqsUpTo(S, n - 1)
         IN  shorter \cup { Append(sq, e) : sq \in shorter, e \in S }

Sources == SeqsUpTo(Shapes, MaxPolygons)

InitDict ==
    /\ status = "none"
    /\ error = "none"
    /\ input_type = "none"
    /\ point_type = "none"
    /\ polygons = << >>
    /\ areas = << >>
    /\ order = << >>
    /\ grid = NoGrid

InitParams ==
    /\ layout \in { "polygon", "grid_polygon" }
    /\ IF layout = "grid_polygon"
       THEN /\ kMinIntersections \in 0..MaxMinIntersections
            /\ kMaxDepth \in 0..MaxDepthBound
       ELSE /\ kMinIntersections = 0
            /\ kMaxDepth = 0

\* One caller, a well-formed structure, every source.
Init ==
    /\ dict_struct = ValidDictStruct
    /\ source \in Sources
    /\ InitParams
    /\ InitDict
    /\ th = [t \in {1} |-> IdleCall]

Spec == Init /\ [][Next]_vars

\* Every structure createLayout may be handed, a source of at most one row.
InitLayout ==
    /\ dict_struct \in DictStructs
    /\ source \in SeqsUpTo(Shapes, 1)
    /\ InitParams
    /\ InitDict
    /\ th = [t \in {1} |-> IdleCall]

SpecLayout == InitLayout /\ [][Next]_vars

\* Two callers on one dictionary instance, interleaved at every loop
\* iteration; the query points are the ones where polygons meet or nest.
ConcThreads == { 1, 2 }
ConcPoints ==
    { [x |-> G, y |-> G], [x |-> G \div 4, y |-> G \div 4],
      [x |-> G + (G \div 4), y |-> G \div 4], [x |-> 2 * G, y |-> 2 * G] }

InitConc ==
    /\ dict_struct = ValidDictStruct
    /\ source \in Sources
    /\ InitParams
    /\ InitDict
    /\ th = [t \in ConcThreads |-> IdleCall]

NextConc == NextOver(ConcPoints, CallerIds)

SpecConc == InitConc /\ [][NextConc]_vars

\* One caller, every source and parameter pair, the few query points above:
\* the specification for what construction alone establishes.
SpecBuild == Init /\ [][NextConc]_vars

\* ------------------------------------------------------------------ claims
Done(t) == status = "built" /\ th[t].pc = "done"
Covering(q) == { j \in Slots : covered_by(q, polygons[j]) }
Range(sq) == { sq[k] : k \in 1..Len(sq) }
LeafPaths == { p \in DOMAIN grid.cells : grid.cells[p].leaf }
IntersectingSlots(box) == { j \in Slots : Intersects(box, BBox(polygons[j])) }

\* C1: a returned grid find reports exactly what the linear find reports for
\* the same polygons, point and caller id: both not found, or both found
\* with the same slot index.
C1_GridAgreesWithLinear ==
    \A t \in Threads :
        (Done(t) /\ layout = "grid_polygon")
            => Result(th[t]) = Result(SimpleFind(th[t].point, th[t].id0))

\* C2: for either locator, when find reports found with slot s, no polygon
\* covering the point has an area strictly smaller than area[s]; the sources
\* range over every ordering of the same polygons.
C2_SmallestAreaWins ==
    \A t \in Threads :
        (Done(t) /\ th[t].found)
            => \A j \in Covering(th[t].point) : ~(areas[j] < areas[th[t].id])

\* C2 witness: a grid find returned slot 1 although slot 0, inserted first
\* and strictly larger, covers the point as well.
C2_Witness ==
    \E t \in Threads :
        /\ Done(t) /\ th[t].found /\ layout = "grid_polygon"
        /\ th[t].id = 1
        /\ 0 \in Covering(th[t].point)
        /\ areas[1] < areas[0]

\* C3: when several polygons of the same area as the reported one cover the
\* point, find reports the one with the lowest slot index, for both locators.
C3_TieGoesToFirstInserted ==
    \A t \in Threads :
        (Done(t) /\ th[t].found)
            => \A j \in Covering(th[t].point) :
                   areas[j] = areas[th[t].id] => th[t].id <= j

\* C4: a grid find for a point outside the union bounding box returns not
\* found: no cell, or a cell none of whose candidates covers the point; and
\* its result is the linear locator's.
C4_OutsideRootNotFound ==
    \A t \in Threads :
        (Done(t) /\ layout = "grid_polygon"
            /\ ~InBox(UnionBox(polygons), th[t].point.x, th[t].point.y))
            => /\ ~th[t].found
               /\ \/ th[t].cell = NullCell
                  \/ \A c \in Range(grid.cells[th[t].cell].polygon_ids) :
                         ~covered_by(th[t].point, polygons[c])
               /\ Result(th[t]) = Result(SimpleFind(th[t].point, th[t].id0))

\* C4 witness: a grid find over a non-empty set returned for an outside point.
C4_Witness ==
    \E t \in Threads :
        /\ Done(t) /\ layout = "grid_polygon" /\ NumPolygons > 0
        /\ ~InBox(UnionBox(polygons), th[t].point.x, th[t].point.y)

\* C5: a dictionary built from an empty polygon set has an empty order and a
\* grid of one leaf with no candidates, and every find on it, for every
\* point, returns not found.
C5_EmptySet ==
    (status = "built" /\ NumPolygons = 0)
        => /\ layout = "grid_polygon"
                => /\ order = << >>
                   /\ DOMAIN grid.cells = { RootPath }
                   /\ grid.cells[RootPath].leaf
                   /\ grid.cells[RootPath].polygon_ids = << >>
           /\ \A t \in Threads : th[t].pc = "done" => ~th[t].found
           /\ \A q \in Points, id0 \in CallerIds :
                  IF layout = "grid_polygon" THEN ~GridFind(q, id0).found
                  ELSE ~SimpleFind(q, id0).found

\* C5 witness: a find on a linear dictionary built from no polygons returned.
C5_Witness ==
    \E t \in Threads : Done(t) /\ NumPolygons = 0 /\ layout = "polygon"

\* C6: createLayout throws BAD_ARGUMENTS and constructs nothing whenever the
\* key is missing, has other than one attribute, is of none of the four
\* allowed types, or range_min/range_max is defined; a dictionary is built
\* only otherwise, with the input and point type of the matched shape.
C6_BadStructure(ds) ==
    \/ ~ds.key_present
    \/ Len(ds.key) # 1
    \/ ds.key[1] \notin { multi_polygon_array, multi_polygon_tuple,
                          simple_polygon_array, simple_polygon_tuple }
    \/ ds.range_min
    \/ ds.range_max

C7_ResultAsAlone ==
    \A t \in Threads :
        Done(t) => Result(th[t]) =
                     Result(IF layout = "grid_polygon"
                            THEN GridFind(th[t].point, th[t].id0)
                            ELSE SimpleFind(th[t].point, th[t].id0))

C7_FindIsReadOnly ==
    /\ []C7_ResultAsAlone
    /\ [][status = "built" => UNCHANGED <<polygons, areas, order, grid>>]_vars

\* C7 witness: one call has returned a hit while another is in the middle of
\* its scan of the same grid.
C7_Witness ==
    /\ layout = "grid_polygon"
    /\ \E t, u \in Threads :
           /\ t # u
           /\ Done(t) /\ th[t].found
           /\ th[u].pc = "scan" /\ th[u].i > 0

\* C8: the order is a permutation of all slots in nondecreasing area; every
\* leaf's candidates are a subsequence of it holding every polygon whose
\* bounding box intersects the leaf, hence in nondecreasing area; and the
\* candidate a grid find reports has minimal area among all covering polygons.
C8_OrderedCandidates ==
    (status = "built" /\ layout = "grid_polygon")
        => /\ Len(order) = NumPolygons
           /\ Range(order) = 0..(NumPolygons - 1)
           /\ \A k \in 1..(Len(order) - 1) : areas[order[k]] <= areas[order[k + 1]]
           /\ \A p \in LeafPaths :
                  LET ids == grid.cells[p].polygon_ids
                  IN  /\ ids = SelectSeq(order, LAMBDA e : e \in Range(ids))
                      /\ Range(ids) = IntersectingSlots(grid.cells[p].box)
                      /\ \A k \in 1..(Len(ids) - 1) : areas[ids[k]] <= areas[ids[k + 1]]
           /\ \A t \in Threads :
                  (th[t].pc = "done" /\ th[t].found)
                      => /\ th[t].id \in Covering(th[t].point)
                         /\ \A j \in Covering(th[t].point) : areas[th[t].id] <= areas[j]

\* C8 witness: a leaf holds two candidates of different area where the
\* larger one was inserted first, and a find has returned a hit.
C8_Witness ==
    /\ status = "built" /\ layout = "grid_polygon"
    /\ \E p \in LeafPaths :
           /\ Len(grid.cells[p].polygon_ids) = 2
           /\ grid.cells[p].polygon_ids[1] = 1
           /\ areas[1] < areas[0]
    /\ \E t \in Threads : th[t].pc = "done" /\ th[t].found

\* C9: construction ends for every polygon set and every parameter pair; a
\* cell is split into its four quadrants exactly when more than
\* min_intersections bounding boxes intersect it and its depth is below
\* max_depth, so no cell is deeper than max_depth and a leaf above
\* max_depth holds at most min_intersections candidates.
C9_BoundedSubdivision ==
    /\ status = "none" => ENABLED CreateLayout
    /\ (status = "built" /\ layout = "grid_polygon")
        => /\ RootPath \in DOMAIN grid.cells
           /\ \A p \in DOMAIN grid.cells :
                  LET c == grid.cells[p]
                      n == Cardinality(IntersectingSlots(c.box))
                  IN  /\ Len(p) <= kMaxDepth
                      /\ ~c.leaf <=> (n > kMinIntersections /\ Len(p) < kMaxDepth)
                      /\ \A q \in 0..3 :
                             IF c.leaf THEN Append(p, q) \notin DOMAIN grid.cells
                             ELSE /\ Append(p, q) \in DOMAIN grid.cells
                                  /\ grid.cells[Append(p, q)].box = QuadrantBox[c.box, q]
                      /\ (c.leaf /\ Len(p) < kMaxDepth)
                             => Len(c.polygon_ids) <= kMinIntersections

\* C9 witness: a grid was split down to max_depth = 2, and a leaf at that
\* depth holds more candidates than min_intersections.
C9_Witness ==
    /\ status = "built" /\ layout = "grid_polygon" /\ kMaxDepth = 2
    /\ \E p \in LeafPaths :
           /\ Len(p) = 2
           /\ Len(grid.cells[p].polygon_ids) > kMinIntersections

\* C10: a find that returns true leaves in id a slot below polygons.size()
\* whose polygon covers the point; a find that returns false leaves id as it
\* was, and the linear find returns false only if no polygon covers the point.
C10_SoundAndFramed ==
    \A t \in Threads :
        Done(t)
            => /\ th[t].found
                    => /\ th[t].id \in 0..(NumPolygons - 1)
                       /\ covered_by(th[t].point, polygons[th[t].id])
               /\ ~th[t].found => th[t].id = th[t].id0
               /\ (~th[t].found /\ layout = "polygon") => Covering(th[t].point) = {}

\* C10 witness: a grid find scanned candidates, none covering the point, and
\* returned false.
C10_Witness ==
    \E t \in Threads :
        /\ Done(t) /\ ~th[t].found /\ layout = "grid_polygon"
        /\ th[t].cell # NullCell /\ th[t].i > 0
        /\ th[t].id0 \notin Slots

====
